---------------------------- MODULE Spec2Model ----------------------------
(***************************************************************************)
(* Model of jaxopt/_src/eq_qp.py: the equality-constrained QP solver.      *)
(*                                                                         *)
(* Numbers.  Vectors (c, b, primal and dual variables, residuals) hold     *)
(* exact dyadic rationals stored as integer counts of quarters: the        *)
(* vector <<2, 2>> is [0.5, 0.5] and <<-4>> is [-1].  Matrices (params_Q,  *)
(* params_A) hold plain integers.  Linear maps keep the unit, an inner     *)
(* product of two vectors is in sixteenths.  A pytree is a flat sequence.  *)
(*                                                                         *)
(* An absent value (Python's None) is the empty tuple.                     *)
(***************************************************************************)
EXTENDS Integers, Sequences, FiniteSets, TLC

VARIABLES
  ctor,       \* arguments the dataclass constructor was given
  self,       \* the solver object's attributes after __post_init__
  pc,         \* position of the current run call
  args,       \* arguments of the current run call
  validated,  \* whether the current run call called _check_params
  lin,        \* run's locals Q and A (the instantiated operators)
  solveArgs,  \* what self.solve was invoked with by the current run call
  nSolve,     \* invocations of self.solve by the current run call
  iter,       \* matvec applications made by the running solver
  best,       \* the running solver's best iterate and its residual norm
  mv,         \* record of the last call of run's closure matvec
  solverOut,  \* the pair self.solve returned to the current run call
  out,        \* the OptStep the current run call returned
  err,        \* the exception the current run call raised
  hist,       \* outcomes of the completed run calls, by Problem Instance
  nRuns,      \* run calls started
  probe,      \* inputs of a direct evaluation of matvec / optimality_fun
  res         \* results of that direct evaluation

vars == <<ctor, self, pc, args, validated, lin, solveArgs, nSolve, iter, best,
          mv, solverOut, out, err, hist, nRuns, probe, res>>

None == <<>>

(***************************************************************************)
(* Bounds of the model.                                                    *)
(***************************************************************************)
MaxEntry == 1    \* largest matrix entry of the direct evaluations
MaxIter == 4     \* the larger of the two iteration caps a solver is built with
MaxRuns == 3     \* run calls made on one solver

(***************************************************************************)
(* tree_util on flat pytrees, and the dense matrix products.               *)
(***************************************************************************)
RECURSIVE SeqSum(_)
SeqSum(s) == IF s = <<>> THEN 0 ELSE Head(s) + SeqSum(Tail(s))

tree_add(a, b) == [i \in 1..Len(a) |-> a[i] + b[i]]

tree_sub(a, b) == [i \in 1..Len(a) |-> a[i] - b[i]]

tree_negative(a) == [i \in 1..Len(a) |-> 0 - a[i]]

tree_vdot(a, b) == SeqSum([i \in 1..Len(a) |-> a[i] * b[i]])

tree_zeros_like(a) == [i \in 1..Len(a) |-> 0]

\* floor of the square root
ISqrt(n) == CHOOSE r \in 0..n : r * r <= n /\ (r + 1) * (r + 1) > n

\* the L2 norm of a pair of vectors in quarters, rounded down
tree_l2_norm(tree) ==
  ISqrt(tree_vdot(tree[1], tree[1]) + tree_vdot(tree[2], tree[2]))

Rows(M) == Len(M)

Cols(M) == Len(M[1])

Dot(M, u) == [i \in 1..Rows(M) |-> tree_vdot(M[i], u)]

Transpose(M) == [j \in 1..Cols(M) |-> [i \in 1..Rows(M) |-> M[i][j]]]

(***************************************************************************)
(* _make_linear_operator: an operator-making function; applied to raw      *)
(* parameters it gives an operator with a matvec, an rmatvec (the adjoint) *)
(* and the joint matvec_and_rmatvec.  The default (None) is the dense      *)
(* product dot(params, u); a user callable is modelled by the documented   *)
(* one, matvec(params, u) = dot(params, u), whose derived adjoint is the   *)
(* transposed product.                                                     *)
(***************************************************************************)
make_linear_operator(matvec) ==
  [kind |-> IF matvec = None THEN "dense" ELSE "callable"]

Instantiate(wrapped, params) == [kind |-> wrapped.kind, params |-> params]

CanApply(op, u) == Len(u) = Cols(op.params)

CanRmatvec(op, v) == Len(v) = Rows(op.params)

Apply(op, u) == Dot(op.params, u)

Rmatvec(op, v) == Dot(Transpose(op.params), v)

matvec_and_rmatvec(op, u, v) == <<Apply(op, u), Rmatvec(op, v)>>

(***************************************************************************)
(* Differentiation, as the KKT assembly uses it.  obj_fun is a quadratic   *)
(* and eq_fun is affine in the primal variable, so the difference          *)
(* quotients below are their exact derivatives.  A function is given by    *)
(* its values around the point x: up[i] and down[i] are its values one     *)
(* step (a quarter) above and below x along coordinate i, and at is its    *)
(* value at x.  obj_fun's value is in 1/32, its gradient in quarters.      *)
(***************************************************************************)
Bump(x, i, d) == [x EXCEPT ![i] = @ + d]

\* jax.grad(f)(x), from f's values around x
Grad(up, down) == [i \in 1..Len(up) |-> (up[i] - down[i]) \div 4]

\* jax.vjp(g, x)[1](v), from g's values around x: the transposed Jacobian
\* of g at x applied to v
Vjp(at, up, v) == [i \in 1..Len(up) |-> tree_vdot(v, tree_sub(up[i], at))]

\* obj_fun with the factor 0.5 left out
obj_fun_no_half(matvec_Q, primal_var, params_obj) ==
  LET params_Q == params_obj[1]
      c == params_obj[2]
      Q == Instantiate(matvec_Q, params_Q)
  IN  2 * tree_vdot(primal_var, Apply(Q, primal_var)) + 2 * tree_vdot(primal_var, c)

\* 0.5 * vdot(x, Q(x)) + vdot(x, c), in 1/32 (each vdot is in 1/16)
obj_fun(matvec_Q, primal_var, params_obj) ==
  LET params_Q == params_obj[1]
      c == params_obj[2]
      Q == Instantiate(matvec_Q, params_Q)
  IN  tree_vdot(primal_var, Apply(Q, primal_var)) + 2 * tree_vdot(primal_var, c)

\* eq_fun with b added instead of subtracted
eq_fun_plus_b(matvec_A, primal_var, params_eq) ==
  LET params_A == params_eq[1]
      b == params_eq[2]
      A == Instantiate(matvec_A, params_A)
  IN  tree_add(Apply(A, primal_var), b)

eq_fun(matvec_A, primal_var, params_eq) ==
  LET params_A == params_eq[1]
      b == params_eq[2]
      A == Instantiate(matvec_A, params_A)
  IN  tree_sub(Apply(A, primal_var), b)

\* the function idf.make_kkt_optimality_fun(obj_fun, eq_fun, ineq_fun) returns,
\* applied; obj_fun and eq_fun are given by their values around the primal
\* variable
make_kkt_optimality_fun(obj_up, obj_down, eq_at, eq_up, ineq_fun, params, params_ineq) ==
  LET eq_dual_var == params[2]
      stationarity == tree_add(Grad(obj_up, obj_down), Vjp(eq_at, eq_up, eq_dual_var))
      primal_feasibility == eq_at
  IN  IF ineq_fun = None
      THEN <<stationarity, primal_feasibility>>
      ELSE <<stationarity, primal_feasibility, params_ineq>>

\* the function _make_eq_qp_optimality_fun(matvec_Q, matvec_A) returns, applied
optimality_fun(matvec_Q, matvec_A, params, params_obj, params_eq) ==
  LET x == params[1]
      obj_up == [i \in 1..Len(x) |-> obj_fun(matvec_Q, Bump(x, i, 1), params_obj)]
      obj_down == [i \in 1..Len(x) |-> obj_fun(matvec_Q, Bump(x, i, -1), params_obj)]
      eq_at == eq_fun(matvec_A, x, params_eq)
      eq_up == [i \in 1..Len(x) |-> eq_fun(matvec_A, Bump(x, i, 1), params_eq)]
  IN  make_kkt_optimality_fun(obj_up, obj_down, eq_at, eq_up, None, params, None)

l2_optimality_error(slf, params, params_obj, params_eq) ==
  tree_l2_norm(optimality_fun(slf.matvec_Q, slf.matvec_A, params, params_obj, params_eq))

(***************************************************************************)
(* run's closure matvec(u) over the instantiated Q and A.  The record      *)
(* keeps the calls the body makes: the arguments of each call of           *)
(* A.matvec_and_rmatvec and of Q, the pair the joint call returned, and    *)
(* the value returned.                                                     *)
(***************************************************************************)
MatvecDefined(Q, A, u) ==
  /\ Len(u) = 2
  /\ CanApply(A, u[1]) /\ CanRmatvec(A, u[2])
  /\ CanApply(Q, u[1])
  /\ Rows(Q.params) = Cols(A.params)

\* matvec that leaves the adjoint term out of the top block
matvec_no_adjoint(Q, A, u) ==
  LET primal_u == u[1]
      dual_u == u[2]
      joint == matvec_and_rmatvec(A, primal_u, dual_u)
      mv_A == joint[1]
  IN  [u |-> u,
       joint_calls |-> << <<primal_u, dual_u>> >>,
       joint |-> joint,
       Q_calls |-> <<primal_u>>,
       result |-> <<Apply(Q, primal_u), mv_A>>]

\* matvec that subtracts the adjoint term in the top block
matvec_minus_adjoint(Q, A, u) ==
  LET primal_u == u[1]
      dual_u == u[2]
      joint == matvec_and_rmatvec(A, primal_u, dual_u)
      mv_A == joint[1]
      rmv_A == joint[2]
  IN  [u |-> u,
       joint_calls |-> << <<primal_u, dual_u>> >>,
       joint |-> joint,
       Q_calls |-> <<primal_u>>,
       result |-> <<tree_sub(Apply(Q, primal_u), rmv_A), mv_A>>]

\* matvec that makes the joint call once for each block
matvec_two_joint_calls(Q, A, u) ==
  LET primal_u == u[1]
      dual_u == u[2]
      first == matvec_and_rmatvec(A, primal_u, dual_u)
      second == matvec_and_rmatvec(A, primal_u, dual_u)
  IN  [u |-> u,
       joint_calls |-> << <<primal_u, dual_u>>, <<primal_u, dual_u>> >>,
       joint |-> second,
       Q_calls |-> <<primal_u>>,
       result |-> <<tree_add(Apply(Q, primal_u), first[2]), second[1]>>]

matvec(Q, A, u) ==
  LET primal_u == u[1]
      dual_u == u[2]
      joint == matvec_and_rmatvec(A, primal_u, dual_u)
      mv_A == joint[1]
      rmv_A == joint[2]
  IN  [u |-> u,
       joint_calls |-> << <<primal_u, dual_u>> >>,
       joint |-> joint,
       Q_calls |-> <<primal_u>>,
       result |-> <<tree_add(Apply(Q, primal_u), rmv_A), mv_A>>]

NoCall == [u |-> None, joint_calls |-> <<>>, joint |-> None, Q_calls |-> <<>>,
           result |-> None]

(***************************************************************************)
(* __post_init__: the attributes of a constructed solver.                  *)
(***************************************************************************)
\* the flag set when either operator is left at its default
post_init_check_params_either(matvec_Q, matvec_A) == matvec_Q = None \/ matvec_A = None

post_init_check_params(matvec_Q, matvec_A) == matvec_Q = None /\ matvec_A = None

post_init(given) ==
  [check_params |-> post_init_check_params(given.matvec_Q, given.matvec_A),
   matvec_Q |-> make_linear_operator(given.matvec_Q),
   matvec_A |-> make_linear_operator(given.matvec_A),
   solve |-> given.solve,
   tol |-> given.tol,
   maxiter |-> given.maxiter]

(***************************************************************************)
(* Direct evaluations of the closure matvec and of optimality_fun on       *)
(* drawn operators and KKT points (specification SpecOps).  The solver     *)
(* object is the default construction; no run call is made.                *)
(***************************************************************************)
EntryVals == -1 .. MaxEntry

DiagVals == {-1, 2}

QProbe == {<< <<q11, q12>>, <<q21, q22>> >> :
             q11 \in DiagVals, q12 \in EntryVals, q21 \in EntryVals, q22 \in DiagVals}

AProbe == {<< <<a1, a2>> >> : a1 \in 0 .. MaxEntry, a2 \in 0 .. MaxEntry}
            \cup {<< <<1, 0>>, <<0, 1>> >>, << <<0, 1>>, <<1, 1>> >>}

\* halves, so that every gradient is a whole number of quarters
PVals == {-2, 0, 2}

VecProbe(n) == IF n = 1 THEN {<<x>> : x \in PVals}
               ELSE {<<x, y>> : x \in PVals, y \in PVals}

KKTProbe(A) == {<<x, d>> : x \in VecProbe(Cols(A)), d \in VecProbe(Rows(A))}

DefaultCtor == [matvec_Q |-> None, matvec_A |-> None, solve |-> "search",
                tol |-> 0, maxiter |-> 1]

NoRes == [kind |-> "none", mv |-> NoCall, c |-> None, b |-> None,
          value |-> None, l2 |-> 0]

NoProbe == [Q |-> None, A |-> None, p |-> None]

NoRunCall ==
  /\ pc = "idle" /\ args = None /\ validated = FALSE /\ lin = None
  /\ solveArgs = None /\ nSolve = 0 /\ iter = 0 /\ best = None /\ mv = NoCall
  /\ solverOut = None /\ out = None /\ err = "none"

runVars == <<ctor, self, pc, args, validated, lin, solveArgs, nSolve, iter, best,
             mv, solverOut, out, err, hist, nRuns>>

InitOps ==
  /\ ctor = DefaultCtor
  /\ self = post_init(ctor)
  /\ NoRunCall /\ hist = {} /\ nRuns = 0
  /\ \E Q \in QProbe, A \in AProbe :
       \E p \in KKTProbe(A) : probe = [Q |-> Q, A |-> A, p |-> p]
  /\ res = NoRes

\* matvec(p) for the closure over Q = self.matvec_Q(probe.Q), A = self.matvec_A(probe.A)
EvalMatvec ==
  /\ res.kind = "none"
  /\ LET Q == Instantiate(self.matvec_Q, probe.Q)
         A == Instantiate(self.matvec_A, probe.A)
     IN  res' = [NoRes EXCEPT !.kind = "matvec", !.mv = matvec(Q, A, probe.p)]
  /\ UNCHANGED <<runVars, probe>>

\* the right-hand sides tried with a KKT point: two fixed ones, and the one
\* the point solves exactly
RhsProbe(Q, A, p) ==
  LET r == matvec(Instantiate(self.matvec_Q, Q), Instantiate(self.matvec_A, A), p).result
  IN  {<<[i \in 1..Cols(A) |-> 0], [i \in 1..Rows(A) |-> 0]>>,
       <<[i \in 1..Cols(A) |-> 4 - 6 * (i - 1)], [i \in 1..Rows(A) |-> 4 * i]>>,
       <<tree_negative(r[1]), r[2]>>}

\* self.optimality_fun and self.l2_optimality_error at params = (p[1], p[2], None)
EvalOptimality ==
  /\ res.kind = "none"
  /\ \E cb \in RhsProbe(probe.Q, probe.A, probe.p) :
       LET params == <<probe.p[1], probe.p[2], None>>
           params_obj == <<probe.Q, cb[1]>>
           params_eq == <<probe.A, cb[2]>>
       IN  res' = [NoRes EXCEPT
                     !.kind = "opt", !.c = cb[1], !.b = cb[2],
                     !.value = optimality_fun(self.matvec_Q, self.matvec_A,
                                              params, params_obj, params_eq),
                     !.l2 = l2_optimality_error(self, params, params_obj, params_eq)]
  /\ UNCHANGED <<runVars, probe>>

NextOps == EvalMatvec \/ EvalOptimality

SpecOps == InitOps /\ [][NextOps]_vars

(***************************************************************************)
(* Properties of the direct evaluations (SpecOps).                         *)
(***************************************************************************)
IsSymmetric(M) == Rows(M) = Cols(M) /\ M = Transpose(M)

\* the inner product of two KKT points: primal block plus dual block
Inner(p, q) == tree_vdot(p[1], q[1]) + tree_vdot(p[2], q[2])

ProbeQ == Instantiate(self.matvec_Q, probe.Q)

ProbeA == Instantiate(self.matvec_A, probe.A)

\* C1: matvec((primal_u, dual_u)) is (Q(primal_u) + A^T(dual_u), A(primal_u)),
\* and its bottom block is the same for every dual_u.
C1_SaddlePointBlocks ==
  res.kind = "matvec" =>
    /\ res.mv.result[1] = tree_add(Dot(probe.Q, probe.p[1]),
                                   Dot(Transpose(probe.A), probe.p[2]))
    /\ res.mv.result[2] = Dot(probe.A, probe.p[1])
    /\ \A d \in VecProbe(Rows(probe.A)) :
         matvec(ProbeQ, ProbeA, <<probe.p[1], d>>).result[2] = res.mv.result[2]

C1_Witness ==
  /\ res.kind = "matvec"
  /\ probe.Q = << <<2, 1>>, <<-1, 2>> >> /\ probe.A = << <<1, 1>> >>
  /\ probe.p = << <<2, -2>>, <<2>> >>
  /\ res.mv.result = << <<4, -4>>, <<0>> >>

\* C6: for a symmetric Q the saddle-point matvec is self-adjoint:
\* <matvec(p), q> = <p, matvec(q)> for all KKT points p and q.
C6_SelfAdjoint ==
  (res.kind = "matvec" /\ IsSymmetric(probe.Q)) =>
    \A q \in KKTProbe(probe.A) :
      Inner(res.mv.result, q) = Inner(probe.p, matvec(ProbeQ, ProbeA, q).result)

C6_Witness ==
  /\ res.kind = "matvec"
  /\ probe.Q = << <<2, 1>>, <<1, -1>> >> /\ probe.A = << <<0, 1>>, <<1, 1>> >>
  /\ probe.p = << <<2, -2>>, <<2, 2>> >>

\* C9 as stated: one joint call on (primal_u, dual_u), one application of Q to
\* primal_u, the FIRST component of the joint result added to Q(primal_u) for
\* the top block and the SECOND component as the bottom block.
C9_AsStated ==
  res.kind = "matvec" =>
    /\ res.mv.joint_calls = << <<probe.p[1], probe.p[2]>> >>
    /\ res.mv.Q_calls = <<probe.p[1]>>
    /\ Len(res.mv.joint[1]) = Len(probe.p[1])
    /\ res.mv.result[1] = tree_add(Apply(ProbeQ, probe.p[1]), res.mv.joint[1])
    /\ res.mv.result[2] = res.mv.joint[2]

\* C9 amended: one joint call on (primal_u, dual_u), which returns
\* (A(primal_u), A^T(dual_u)); one application of Q to primal_u; the SECOND
\* component (the adjoint's) is added to Q(primal_u) for the top block and the
\* FIRST component (A(primal_u)) is the bottom block.
C9_JointCallOnce ==
  res.kind = "matvec" =>
    /\ res.mv.joint_calls = << <<probe.p[1], probe.p[2]>> >>
    /\ res.mv.Q_calls = <<probe.p[1]>>
    /\ res.mv.joint = <<Dot(probe.A, probe.p[1]), Dot(Transpose(probe.A), probe.p[2])>>
    /\ res.mv.result[1] = tree_add(Dot(probe.Q, probe.p[1]), res.mv.joint[2])
    /\ res.mv.result[2] = res.mv.joint[1]

C9_Witness ==
  /\ res.kind = "matvec"
  /\ probe.A = << <<0, 1>>, <<1, 1>> >> /\ probe.Q = << <<2, 0>>, <<0, 2>> >>
  /\ probe.p = << <<2, 0>>, <<0, 2>> >>
  /\ res.mv.joint = << <<0, 2>>, <<2, 2>> >>
  /\ res.mv.result = << <<6, 2>>, <<0, 2>> >>

\* half of (Q + Q^T) x, the gradient of 0.5 * x^T Q x
HalfSym(Q, x) == [i \in 1..Len(x) |-> (Dot(Q, x)[i] + Dot(Transpose(Q), x)[i]) \div 2]

\* C3 as stated: for every Q, symmetric or not, the stationarity component is
\* Q(primal_var) + c plus the constraint term A^T(dual_eq_var), the feasibility
\* component is A(primal_var) - b, and there is no third component.
C3_AsStated ==
  res.kind = "opt" =>
    /\ Len(res.value) = 2
    /\ res.value[1] = tree_add(tree_add(Dot(probe.Q, probe.p[1]), res.c),
                               Dot(Transpose(probe.A), probe.p[2]))
    /\ res.value[2] = tree_sub(Dot(probe.A, probe.p[1]), res.b)

\* C3 amended: the objective's contribution to the stationarity component is
\* the gradient of the objective, (Q + Q^T)(primal_var) / 2 + c, which is
\* Q(primal_var) + c when Q is symmetric; the assembly adds A^T(dual_eq_var);
\* the feasibility component is A(primal_var) - b; no third component.
C3_Residual ==
  res.kind = "opt" =>
    /\ Len(res.value) = 2
    /\ res.value[1] = tree_add(tree_add(HalfSym(probe.Q, probe.p[1]), res.c),
                               Dot(Transpose(probe.A), probe.p[2]))
    /\ IsSymmetric(probe.Q) =>
         res.value[1] = tree_add(tree_add(Dot(probe.Q, probe.p[1]), res.c),
                                 Dot(Transpose(probe.A), probe.p[2]))
    /\ res.value[2] = tree_sub(Dot(probe.A, probe.p[1]), res.b)

C3_Witness ==
  /\ res.kind = "opt"
  /\ probe.Q = << <<2, 1>>, <<0, 2>> >> /\ probe.A = << <<1, 1>> >>
  /\ probe.p = << <<0, 2>>, <<-2>> >>
  /\ res.c = <<4, -2>> /\ res.b = <<4>>
  /\ res.value = << <<3, 0>>, <<-2>> >>

(***************************************************************************)
(* The solver object and its run calls (specification Spec).               *)
(***************************************************************************)
\* _check_params(params_obj, params_eq): TRUE when the shapes are consistent,
\* FALSE when the call raises
check_params(params_obj, params_eq) ==
  LET Q == params_obj[1]
      c == params_obj[2]
      A == params_eq[1]
      b == params_eq[2]
  IN  /\ Rows(Q) = Cols(Q)
      /\ Len(c) = Cols(Q)
      /\ Cols(A) = Cols(Q)
      /\ Len(b) = Rows(A)

\* run that passes c, not its negative, as the right-hand side
run_until_solve_plus_c(slf, init_params, params_obj, params_eq) ==
  IF slf.check_params /\ ~check_params(params_obj, params_eq)
  THEN [pc |-> "raised", err |-> "ShapeMismatch", validated |-> TRUE,
        lin |-> None, solveArgs |-> None, nSolve |-> 0]
  ELSE LET Q == Instantiate(slf.matvec_Q, params_obj[1])
           A == Instantiate(slf.matvec_A, params_eq[1])
       IN  [pc |-> "solving", err |-> "none", validated |-> slf.check_params,
            lin |-> <<[Q |-> Q, A |-> A]>>,
            solveArgs |-> <<[matvec |-> [Q |-> Q, A |-> A],
                             rhs |-> <<params_obj[2], params_eq[2]>>,
                             tol |-> slf.tol,
                             maxiter |-> slf.maxiter,
                             init |-> None]>>,
            nSolve |-> 1]

\* run that instantiates Q and A before it validates
run_until_solve_late_check(slf, init_params, params_obj, params_eq) ==
  LET Q == Instantiate(slf.matvec_Q, params_obj[1])
      A == Instantiate(slf.matvec_A, params_eq[1])
  IN  IF slf.check_params /\ ~check_params(params_obj, params_eq)
      THEN [pc |-> "raised", err |-> "ShapeMismatch", validated |-> TRUE,
            lin |-> <<[Q |-> Q, A |-> A]>>, solveArgs |-> None, nSolve |-> 0]
      ELSE [pc |-> "solving", err |-> "none", validated |-> slf.check_params,
            lin |-> <<[Q |-> Q, A |-> A]>>,
            solveArgs |-> <<[matvec |-> [Q |-> Q, A |-> A],
                             rhs |-> <<tree_negative(params_obj[2]), params_eq[2]>>,
                             tol |-> slf.tol,
                             maxiter |-> slf.maxiter,
                             init |-> None]>>,
            nSolve |-> 1]

\* run that hands init_params to the solver as its starting point
run_until_solve_warm_start(slf, init_params, params_obj, params_eq) ==
  IF slf.check_params /\ ~check_params(params_obj, params_eq)
  THEN [pc |-> "raised", err |-> "ShapeMismatch", validated |-> TRUE,
        lin |-> None, solveArgs |-> None, nSolve |-> 0]
  ELSE LET Q == Instantiate(slf.matvec_Q, params_obj[1])
           A == Instantiate(slf.matvec_A, params_eq[1])
       IN  [pc |-> "solving", err |-> "none", validated |-> slf.check_params,
            lin |-> <<[Q |-> Q, A |-> A]>>,
            solveArgs |-> <<[matvec |-> [Q |-> Q, A |-> A],
                             rhs |-> <<tree_negative(params_obj[2]), params_eq[2]>>,
                             tol |-> slf.tol,
                             maxiter |-> slf.maxiter,
                             init |-> init_params]>>,
            nSolve |-> 1]

\* run, lines 110-130: from the call to the invocation of self.solve
run_until_solve(slf, init_params, params_obj, params_eq) ==
  IF slf.check_params /\ ~check_params(params_obj, params_eq)
  THEN [pc |-> "raised", err |-> "ShapeMismatch", validated |-> TRUE,
        lin |-> None, solveArgs |-> None, nSolve |-> 0]
  ELSE LET params_Q == params_obj[1]
           c == params_obj[2]
           params_A == params_eq[1]
           b == params_eq[2]
           Q == Instantiate(slf.matvec_Q, params_Q)
           A == Instantiate(slf.matvec_A, params_A)
           minus_c == tree_negative(c)
       IN  [pc |-> "solving", err |-> "none", validated |-> slf.check_params,
            lin |-> <<[Q |-> Q, A |-> A]>>,
            solveArgs |-> <<[matvec |-> [Q |-> Q, A |-> A],
                             rhs |-> <<minus_c, b>>,
                             tol |-> slf.tol,
                             maxiter |-> slf.maxiter,
                             init |-> None]>>,
            nSolve |-> 1]

\* run that raises when the returned pair's optimality error exceeds tol
run_package_checked(slf, params_obj, params_eq, solution) ==
  IF l2_optimality_error(slf, <<solution[1], solution[2], None>>, params_obj, params_eq)
       > slf.tol
  THEN [pc |-> "raised", err |-> "NoConvergence", out |-> None]
  ELSE [pc |-> "returned", err |-> "none",
        out |-> <<[params |-> <<solution[1], solution[2], None>>, state |-> None]>>]

\* run, lines 130-131, in a call on slf with params_obj and params_eq: the
\* pair the solver returned, packaged
run_package(slf, params_obj, params_eq, solution) ==
  LET primal == solution[1]
      dual_eq == solution[2]
  IN  [pc |-> "returned", err |-> "none",
       out |-> <<[params |-> <<primal, dual_eq, None>>, state |-> None]>>]

(***************************************************************************)
(* self.solve.  The pluggable solver is a deterministic matvec-only        *)
(* search: it applies the operator to one iterate per iteration, starting  *)
(* from init, or from zeros shaped like the right-hand side when no init   *)
(* is given, keeps the iterate of least residual norm, and stops when the  *)
(* residual norm is within tol or after maxiter applications.  "search"    *)
(* then returns its best iterate; "strict" raises unless it converged.     *)
(***************************************************************************)
Iterates ==
  << << <<0, 0>>, <<0>> >>,
     << <<2, 2>>, <<-4>> >>,
     << <<2, 2>>, <<0>> >>,
     << <<4, 0>>, <<-4>> >>,
     << <<0, 4>>, <<-8>> >> >>

Iterate(k, rhs, init) ==
  IF k = 1
  THEN IF init = None THEN <<tree_zeros_like(rhs[1]), tree_zeros_like(rhs[2])>>
       ELSE <<init[1], init[2]>>
  ELSE Iterates[k]

Residual(value, rhs) == tree_l2_norm(<<tree_sub(value[1], rhs[1]), tree_sub(value[2], rhs[2])>>)

Converged(bst, tol) == bst # None /\ bst[1].res <= tol

SolverBudgetLeft(sa) == iter < sa.maxiter /\ iter < Len(Iterates)

(***************************************************************************)
(* Inputs of the run calls.                                                *)
(***************************************************************************)
Callables == {None, <<"dot">>}

Solvers == {"search", "strict"}

CtorArgs == [matvec_Q : Callables, matvec_A : Callables, solve : Solvers,
             tol : {0, 4}, maxiter : {1, MaxIter}]

\* Problem Instances <<params_obj, params_eq>>: Q diagonal, symmetric and not
\* symmetric; the last two have a c or a b of the wrong length
Diag2 == << <<2, 0>>, <<0, 2>> >>

Sym21 == << <<2, 1>>, <<1, 2>> >>

Upper22 == << <<2, 2>>, <<0, 2>> >>

RunInstances ==
  { << <<Diag2, <<0, 0>> >>, << << <<1, 1>> >>, <<4>> >> >>,
    << <<Diag2, <<-4, -4>> >>, << << <<1, 1>> >>, <<4>> >> >>,
    << <<Sym21, <<-4, -4>> >>, << << <<1, 0>> >>, <<4>> >> >>,
    << <<Upper22, <<0, 0>> >>, << << <<1, 1>> >>, <<4>> >> >>,
    << <<Upper22, <<-4, -4>> >>, << << <<1, 1>> >>, <<4>> >> >>,
    << <<Diag2, <<0, 0, 0>> >>, << << <<1, 1>> >>, <<4>> >> >>,
    << <<Diag2, <<0, 0>> >>, << << <<1, 1>> >>, <<4, 4>> >> >> }

InitParams == {None, << <<2, 2>>, <<-4>>, None >>}

Init ==
  /\ ctor \in CtorArgs
  /\ self = post_init(ctor)
  /\ NoRunCall /\ hist = {} /\ nRuns = 0
  /\ probe = NoProbe /\ res = NoRes

\* a call of run(init_params, params_obj, params_eq), up to the point where
\* self.solve has been invoked or validation has raised
RunCall ==
  /\ pc \in {"idle", "returned", "raised"}
  /\ nRuns < MaxRuns
  /\ \E init_params \in InitParams, inst \in RunInstances :
       LET params_obj == inst[1]
           params_eq == inst[2]
           r == run_until_solve(self, init_params, params_obj, params_eq)
       IN  /\ args' = <<[init_params |-> init_params, params_obj |-> params_obj,
                         params_eq |-> params_eq]>>
           /\ pc' = r.pc /\ err' = r.err /\ validated' = r.validated
           /\ lin' = r.lin /\ solveArgs' = r.solveArgs /\ nSolve' = r.nSolve
           /\ hist' = IF r.pc = "raised"
                      THEN hist \cup {[init |-> init_params, obj |-> params_obj,
                                        eq |-> params_eq, pc |-> r.pc, out |-> None,
                                        err |-> r.err]}
                      ELSE hist
  /\ iter' = 0 /\ best' = None /\ mv' = NoCall /\ solverOut' = None /\ out' = None
  /\ nRuns' = nRuns + 1
  /\ UNCHANGED <<ctor, self, probe, res>>

\* one iteration of the running solver: it applies matvec to its next iterate;
\* an operator that cannot be applied raises, and the exception leaves run
SolverIterate ==
  /\ pc = "solving"
  /\ LET sa == solveArgs[1]
         u == Iterate(iter + 1, sa.rhs, sa.init)
     IN  /\ SolverBudgetLeft(sa) /\ ~Converged(best, sa.tol)
         /\ IF MatvecDefined(sa.matvec.Q, sa.matvec.A, u)
            THEN LET call == matvec(sa.matvec.Q, sa.matvec.A, u)
                     r == Residual(call.result, sa.rhs)
                 IN  /\ mv' = call
                     /\ best' = IF best = None \/ r < best[1].res
                                THEN <<[u |-> u, res |-> r]>> ELSE best
                     /\ iter' = iter + 1
                     /\ UNCHANGED <<pc, err, hist>>
            ELSE /\ pc' = "raised" /\ err' = "OperatorFailure"
                 /\ hist' = hist \cup {[init |-> args[1].init_params,
                                         obj |-> args[1].params_obj,
                                         eq |-> args[1].params_eq, pc |-> "raised",
                                         out |-> None, err |-> "OperatorFailure"]}
                 /\ UNCHANGED <<mv, best, iter>>
  /\ UNCHANGED <<ctor, self, args, validated, lin, solveArgs, nSolve, solverOut,
                 out, nRuns, probe, res>>

\* the solver stops: it returns its best iterate, which run packages and
\* returns, or ("strict", not converged) it raises and the exception leaves run
SolverFinish ==
  /\ pc = "solving"
  /\ LET sa == solveArgs[1]
     IN  /\ iter >= 1
         /\ ~SolverBudgetLeft(sa) \/ Converged(best, sa.tol)
         /\ IF self.solve = "strict" /\ ~Converged(best, sa.tol)
            THEN /\ pc' = "raised" /\ err' = "NoConvergence"
                 /\ hist' = hist \cup {[init |-> args[1].init_params,
                                         obj |-> args[1].params_obj,
                                         eq |-> args[1].params_eq, pc |-> "raised",
                                         out |-> None, err |-> "NoConvergence"]}
                 /\ UNCHANGED <<solverOut, out>>
            ELSE LET r == run_package(self, args[1].params_obj, args[1].params_eq,
                                      best[1].u)
                 IN  /\ solverOut' = <<best[1].u>>
                     /\ pc' = r.pc /\ err' = r.err /\ out' = r.out
                     /\ hist' = hist \cup {[init |-> args[1].init_params,
                                             obj |-> args[1].params_obj,
                                             eq |-> args[1].params_eq, pc |-> r.pc,
                                             out |-> r.out, err |-> r.err]}
  /\ UNCHANGED <<ctor, self, args, validated, lin, solveArgs, nSolve, iter, best,
                 mv, nRuns, probe, res>>

Next == RunCall \/ SolverIterate \/ SolverFinish

Spec == Init /\ [][Next]_vars

(***************************************************************************)
(* Properties of the run calls (Spec).                                     *)
(***************************************************************************)
CallObj == args[1].params_obj

CallEq == args[1].params_eq

ShapesConsistent ==
  /\ Len(CallObj[2]) = Cols(CallObj[1])
  /\ Len(CallEq[2]) = Rows(CallEq[1])

\* the call's saddle-point system is solved exactly by the pair u
SolvesSaddlePoint(u) ==
  /\ tree_add(Dot(CallObj[1], u[1]), Dot(Transpose(CallEq[1]), u[2]))
       = [i \in 1..Len(CallObj[2]) |-> 0 - CallObj[2][i]]
  /\ Dot(CallEq[1], u[1]) = CallEq[2]

\* C2: for a symmetric Q, when the solver returned an exact solution (x, lam)
\* of matvec((x, lam)) = (-c, b), optimality_fun at (x, lam, None) is zero in
\* both components and l2_optimality_error is 0 <= tol; for Q = [[2,0],[0,2]],
\* c = [0,0], A = [[1,1]], b = [1] the pair is ([0.5, 0.5], [-1]).
C2_ExactSolutionIsOptimal ==
  (pc = "returned" /\ IsSymmetric(CallObj[1]) /\ SolvesSaddlePoint(solverOut[1])) =>
    /\ optimality_fun(self.matvec_Q, self.matvec_A, out[1].params, CallObj, CallEq)
         = << <<0, 0>>, <<0>> >>
    /\ l2_optimality_error(self, out[1].params, CallObj, CallEq) = 0
    /\ l2_optimality_error(self, out[1].params, CallObj, CallEq) <= self.tol
    /\ (CallObj = << << <<2, 0>>, <<0, 2>> >>, <<0, 0>> >>
          /\ CallEq = << << <<1, 1>> >>, <<4>> >>)
         => out[1].params = << <<2, 2>>, <<-4>>, None >>

C2_Witness ==
  /\ pc = "returned"
  /\ CallObj = << << <<2, 0>>, <<0, 2>> >>, <<0, 0>> >>
  /\ CallEq = << << <<1, 1>> >>, <<4>> >>
  /\ SolvesSaddlePoint(solverOut[1])
  /\ out[1].params = << <<2, 2>>, <<-4>>, None >>

\* C4: when run returns, the solver was invoked with the saddle-point matvec
\* over the instantiated Q and A, the right-hand side (-c, b), and the
\* configured tol and maxiter; the returned params are (primal, dual_eq, None)
\* for exactly the pair the solver returned, and the returned state is None.
C4_SolveAndPackage ==
  pc = "returned" =>
    /\ nSolve = 1
    /\ solveArgs[1].matvec = [Q |-> Instantiate(self.matvec_Q, CallObj[1]),
                              A |-> Instantiate(self.matvec_A, CallEq[1])]
    /\ solveArgs[1].rhs = <<[i \in 1..Len(CallObj[2]) |-> 0 - CallObj[2][i]], CallEq[2]>>
    /\ solveArgs[1].tol = ctor.tol
    /\ solveArgs[1].maxiter = ctor.maxiter
    /\ out[1].params = <<solverOut[1][1], solverOut[1][2], None>>
    /\ out[1].state = None

C4_Witness ==
  /\ pc = "returned"
  /\ CallObj[2] = <<-4, -4>> /\ CallEq[2] = <<4>>
  /\ solveArgs[1].rhs = << <<4, 4>>, <<4>> >>
  /\ ctor.tol = 4 /\ ctor.maxiter = MaxIter
  /\ out[1].params = << <<2, 2>>, <<0>>, None >>

\* C5: with validation enabled and inconsistent shapes, run raises the
\* validation error before any linear-algebra work: no operator is
\* instantiated, matvec is never applied, the solver is never invoked and
\* nothing is returned.
C5_ValidationFirst ==
  (pc # "idle" /\ self.check_params /\ ~ShapesConsistent) =>
    /\ pc = "raised" /\ err = "ShapeMismatch"
    /\ lin = None
    /\ mv = NoCall /\ iter = 0
    /\ nSolve = 0 /\ solveArgs = None
    /\ solverOut = None /\ out = None

C5_Witness ==
  /\ pc = "raised" /\ err = "ShapeMismatch"
  /\ CallObj[2] = <<0, 0, 0>> /\ Cols(CallObj[1]) = 2
  /\ nRuns = 2

\* C7: the result of run is determined by the Problem Instance and the solver
\* configuration: any two completed calls on the same solver with the same
\* (params_obj, params_eq) have the same result, whatever their init_params and
\* whatever calls were made in between; run leaves the configuration unchanged.
C7_ResultDependsOnInstanceOnly ==
  /\ \A h1 \in hist, h2 \in hist :
       (h1.obj = h2.obj /\ h1.eq = h2.eq) =>
         (h1.pc = h2.pc /\ h1.out = h2.out /\ h1.err = h2.err)
  /\ self = post_init(ctor)

\* three completed calls: two on one instance, without and with init_params,
\* returning the same pair (which is not the init_params given), and one on
\* another instance
C7_Witness ==
  /\ nRuns = 3 /\ pc = "returned"
  /\ \E h1 \in hist, h2 \in hist, h3 \in hist :
       /\ h1.obj = h2.obj /\ h1.eq = h2.eq
       /\ h1.init = None /\ h2.init # None
       /\ h1.pc = "returned" /\ h1.out[1].params # h2.init
       /\ h2.out = h1.out
       /\ h3.obj # h1.obj

\* C8: run calls the parameter check if and only if both matvec_Q and matvec_A
\* were left at None at construction; with either one user-supplied nothing is
\* validated; the decision is the same in every run call.
C8_ValidationOnlyForDefaults ==
  /\ self.check_params = (ctor.matvec_Q = None /\ ctor.matvec_A = None)
  /\ pc # "idle" => (validated = (ctor.matvec_Q = None /\ ctor.matvec_A = None))
  /\ (pc # "idle" /\ (ctor.matvec_Q # None \/ ctor.matvec_A # None)) =>
       ~(pc = "raised" /\ err = "ShapeMismatch")

C8_Witness ==
  /\ ctor.matvec_Q # None /\ ctor.matvec_A = None
  /\ nRuns = 2 /\ ~ShapesConsistent
  /\ validated = FALSE
  /\ pc = "raised" /\ err = "OperatorFailure"

\* C10: a run call invokes the solver at most once; when an operator
\* application or the solver raises, the exception leaves run with no second
\* invocation and nothing returned or recorded as a solution; when the solver
\* returns an iterate, run returns exactly that iterate, whatever its residual:
\* run never raises after the solver has returned.
C10_NoRetryNoResidualCheck ==
  /\ nSolve <= 1
  /\ pc = "raised" =>
       /\ out = None /\ solverOut = None
       /\ err \in {"ShapeMismatch", "OperatorFailure", "NoConvergence"}
       /\ err \in {"OperatorFailure", "NoConvergence"} => nSolve = 1
       /\ \A h \in hist : h.pc = "raised" => h.out = None
  /\ solverOut # None =>
       /\ pc = "returned" /\ err = "none"
       /\ out[1].params = <<solverOut[1][1], solverOut[1][2], None>>

C10_Witness ==
  /\ pc = "returned" /\ nSolve = 1
  /\ iter = self.maxiter
  /\ l2_optimality_error(self, out[1].params, CallObj, CallEq) > self.tol
  /\ \E h \in hist : h.pc = "raised" /\ h.err = "OperatorFailure"

=============================================================================
